---- MODULE Spec2Model ----
(***************************************************************************)
(* A model of the blackjack engine of src/blackjack.py: the scoring        *)
(* functions sum_cards and is_hand_blackjack, the classes Card, Player and *)
(* Deck, and the game object BlackJack with its calls.  The deck is the    *)
(* MockDeck of src/tests.py, whose draw order is an input.                 *)
(*                                                                         *)
(* A Python call either returns or raises.  An operator that models a call *)
(* that can raise yields a record whose field "raised" names the exception *)
(* ("None" when the call returned).                                        *)
(***************************************************************************)
EXTENDS Integers, Sequences, FiniteSets, TLC

\* ------------------------------------------------------------------ bounds
\* The largest number of players of a game.
MaxPlayers == 2
\* The largest number of cards of a supplied deck.
MaxDeck == 7
\* The largest hand the scoring functions are applied to under SpecHand.
MaxHand == 4
\* The card codes the supplied decks of Spec are built from: an Ace, a small
\* card and a ten-value card.
GameCodes == {"a", "5", "k"}

\* --------------------------------------------------------------- constants
\* The total above which a hand is bust.
BustLimit == 21
\* The total below which the dealer draws.
DealerLimit == 17
\* An Ace counts 11 while the running total is at most this.
SoftLimit == 10

None == 0

\* ------------------------------------------------------------------- cards
\* A member of the enumeration Card.CardType: an object with the attributes
\* name and value, and no attribute type.
Member(n) == [name |-> n, value |-> n]

CardTypeNames ==
    {"ACE", "TWO", "THREE", "FOUR", "FIVE", "SIX", "SEVEN", "EIGHT", "NINE",
     "TEN", "KING", "QUEEN", "JACK"}

CardType == {Member(n) : n \in CardTypeNames}

ACE == Member("ACE")
TEN == Member("TEN")
KING == Member("KING")
QUEEN == Member("QUEEN")
JACK == Member("JACK")

\* Card.__init__
Card(card_type, value) == [type |-> card_type, value |-> value]

\* Whether object o has attribute a.
HasAttr(o, a) == a \in DOMAIN o

\* Card.__eq__(self, other): self.type == other.type.  Reading other.type
\* raises AttributeError when other has no attribute type.
Card__eq__(self, other) ==
    IF HasAttr(other, "type")
    THEN [raised |-> "None", ret |-> (self.type = other.type)]
    ELSE [raised |-> "AttributeError", ret |-> FALSE]

Codes == {"a", "2", "3", "4", "5", "6", "7", "8", "9", "10", "k", "q", "j"}

\* make_card of the tests: the Card of a card code.
make_card(code) ==
    CASE code = "a" -> Card(Member("ACE"), 1)
      [] code = "2" -> Card(Member("TWO"), 2)
      [] code = "3" -> Card(Member("THREE"), 3)
      [] code = "4" -> Card(Member("FOUR"), 4)
      [] code = "5" -> Card(Member("FIVE"), 5)
      [] code = "6" -> Card(Member("SIX"), 6)
      [] code = "7" -> Card(Member("SEVEN"), 7)
      [] code = "8" -> Card(Member("EIGHT"), 8)
      [] code = "9" -> Card(Member("NINE"), 9)
      [] code = "10" -> Card(Member("TEN"), 10)
      [] code = "k" -> Card(Member("KING"), 10)
      [] code = "q" -> Card(Member("QUEEN"), 10)
      [] code = "j" -> Card(Member("JACK"), 10)

make_cards(codes) == [i \in 1..Len(codes) |-> make_card(codes[i])]

\* reversed(s)
reversed(s) == [i \in 1..Len(s) |-> s[Len(s) + 1 - i]]

\* ----------------------------------------------------------------- scoring
\* One step of sorted(cards, key=lambda c: c.value): card c put into the
\* ascending sequence s behind the cards whose value is not larger (stable).
RECURSIVE InsertByValue(_, _)
InsertByValue(s, c) ==
    IF s = <<>> THEN <<c>>
    ELSE IF s[Len(s)].value <= c.value THEN Append(s, c)
    ELSE Append(InsertByValue(SubSeq(s, 1, Len(s) - 1), c), s[Len(s)])

RECURSIVE sorted(_)
sorted(cards) ==
    IF cards = <<>> THEN <<>>
    ELSE InsertByValue(sorted(SubSeq(cards, 1, Len(cards) - 1)), cards[Len(cards)])

\* The loop body of sum_cards counting an Ace as 1 already on a running
\* total of SoftLimit: >= for >.
AddCard_ace_low(total, card) ==
    IF card.type = ACE
    THEN (IF total >= SoftLimit THEN total + 1 ELSE total + 11)
    ELSE total + card.value

\* The loop body of sum_cards assigning a card's value to the total: = for +=.
AddCard_assigns(total, card) ==
    IF card.type = ACE
    THEN (IF total > SoftLimit THEN total + 1 ELSE total + 11)
    ELSE card.value

\* The loop body of sum_cards: the running total after one more card.
AddCard(total, card) ==
    IF card.type = ACE
    THEN (IF total > SoftLimit THEN total + 1 ELSE total + 11)
    ELSE total + card.value

RECURSIVE SumFrom(_, _)
SumFrom(s, total) ==
    IF s = <<>> THEN total ELSE SumFrom(Tail(s), AddCard(total, Head(s)))

sum_cards(cards) == SumFrom(reversed(sorted(cards)), 0)

\* x in hand, for a list: the items are compared with x in order, by
\* item == x, until one is equal; a comparison that raises ends the search.
RECURSIVE list_contains(_, _)
list_contains(hand, x) ==
    IF hand = <<>> THEN [raised |-> "None", ret |-> FALSE]
    ELSE LET e == Card__eq__(Head(hand), x)
         IN  IF e.raised # "None" THEN e
             ELSE IF e.ret THEN e
             ELSE list_contains(Tail(hand), x)

\* a or b, b evaluated only when a returned false.
OrElse(a, b) == IF a.raised # "None" \/ a.ret THEN a ELSE b

\* a and b, b evaluated only when a returned true.
AndAlso(a, b) == IF a.raised # "None" \/ ~a.ret THEN a ELSE b

is_hand_blackjack(hand) ==
    IF Len(hand) > 2 THEN [raised |-> "None", ret |-> FALSE]
    ELSE AndAlso(list_contains(hand, ACE),
                 OrElse(list_contains(hand, TEN),
                 OrElse(list_contains(hand, KING),
                 OrElse(list_contains(hand, QUEEN),
                        list_contains(hand, JACK)))))

\* ------------------------------------------------------------------ Player
Player(name) == [name |-> name, hand |-> <<>>]

PlayerName(i) == "p" \o ToString(i)

\* deal_initial_cards appending the two cards in the wrong order.
deal_initial_cards_swapped(player, card1, card2) ==
    IF player.hand # <<>>
    THEN [raised |-> "Exception", player |-> player]
    ELSE [raised |-> "None",
          player |-> [player EXCEPT !.hand = Append(Append(@, card2), card1)]]

\* deal_initial_cards without the test of the hand.
deal_initial_cards_unguarded(player, card1, card2) ==
    [raised |-> "None",
     player |-> [player EXCEPT !.hand = Append(Append(@, card1), card2)]]

deal_initial_cards(player, card1, card2) ==
    IF player.hand # <<>>
    THEN [raised |-> "Exception", player |-> player]
    ELSE [raised |-> "None",
          player |-> [player EXCEPT !.hand = Append(Append(@, card1), card2)]]

hit(player, card) == [player EXCEPT !.hand = Append(@, card)]

is_bust(player) == sum_cards(player.hand) > BustLimit

\* -------------------------------------------------------------------- Deck
\* MockDeck(card_codes).cards: the cards in reverse draw order.
MockDeck(card_codes) == make_cards(reversed(card_codes))

\* draw_card taking the first card of the list: self.cards.pop(0).
draw_card_first(cards) ==
    IF cards = <<>>
    THEN [raised |-> "IndexError", cards |-> cards]
    ELSE [raised |-> "None", ret |-> cards[1],
          cards |-> SubSeq(cards, 2, Len(cards))]

\* Deck.draw_card: self.cards.pop(), the last card of the list; popping the
\* empty list raises IndexError.
draw_card(cards) ==
    IF cards = <<>>
    THEN [raised |-> "IndexError", cards |-> cards]
    ELSE [raised |-> "None", ret |-> cards[Len(cards)],
          cards |-> SubSeq(cards, 1, Len(cards) - 1)]

\* --------------------------------------------------------------- BlackJack
\* The attributes of a BlackJack object: g.players, g.dealer, g.deck (the
\* list Deck.cards) and g.current_player, which is the index in g.players of
\* the player self._current_player refers to, or None.  A call yields the
\* object as the call leaves it, also when it raises.

\* _play_dealers_turn drawing also on DealerLimit: <= for <.
RECURSIVE _play_dealers_turn_on_limit(_)
_play_dealers_turn_on_limit(g) ==
    IF sum_cards(g.dealer.hand) <= DealerLimit
    THEN LET d == draw_card(g.deck)
         IN  IF d.raised # "None" THEN [raised |-> d.raised, g |-> g]
             ELSE _play_dealers_turn_on_limit(
                      [g EXCEPT !.deck = d.cards, !.dealer = hit(@, d.ret)])
    ELSE [raised |-> "None", g |-> g]

\* BlackJack._play_dealers_turn
RECURSIVE _play_dealers_turn(_)
_play_dealers_turn(g) ==
    IF sum_cards(g.dealer.hand) < DealerLimit
    THEN LET d == draw_card(g.deck)
         IN  IF d.raised # "None" THEN [raised |-> d.raised, g |-> g]
             ELSE _play_dealers_turn(
                      [g EXCEPT !.deck = d.cards, !.dealer = hit(@, d.ret)])
    ELSE [raised |-> "None", g |-> g]

\* _next_player taking the player before the last for the last: the index
\* compared with len(self._players) - 2.
_next_player_early(g) ==
    IF g.current_player = None THEN [raised |-> "AssertionError", g |-> g]
    ELSE LET curr_player_index == g.current_player
         IN  IF curr_player_index >= Len(g.players) - 1
             THEN LET r == _play_dealers_turn(g)
                  IN  IF r.raised # "None" THEN r
                      ELSE [raised |-> "None",
                            g |-> [r.g EXCEPT !.current_player = None]]
             ELSE [raised |-> "None",
                   g |-> [g EXCEPT !.current_player = curr_player_index + 1]]

\* _next_player leaving the current player in place: the + 1 forgotten.
_next_player_stays(g) ==
    IF g.current_player = None THEN [raised |-> "AssertionError", g |-> g]
    ELSE LET curr_player_index == g.current_player
         IN  IF curr_player_index = Len(g.players)
             THEN LET r == _play_dealers_turn(g)
                  IN  IF r.raised # "None" THEN r
                      ELSE [raised |-> "None",
                            g |-> [r.g EXCEPT !.current_player = None]]
             ELSE [raised |-> "None",
                   g |-> [g EXCEPT !.current_player = curr_player_index]]

\* BlackJack._next_player
_next_player(g) ==
    IF g.current_player = None THEN [raised |-> "AssertionError", g |-> g]
    ELSE LET curr_player_index == g.current_player
         IN  IF curr_player_index = Len(g.players)
             THEN LET r == _play_dealers_turn(g)
                  IN  IF r.raised # "None" THEN r
                      ELSE [raised |-> "None",
                            g |-> [r.g EXCEPT !.current_player = None]]
             ELSE [raised |-> "None",
                   g |-> [g EXCEPT !.current_player = curr_player_index + 1]]

\* hit_current_player without the bust check: the turn never advances.
hit_current_player_no_advance(g) ==
    IF g.current_player = None THEN [raised |-> "AssertionError", g |-> g]
    ELSE LET d == draw_card(g.deck)
         IN  IF d.raised # "None" THEN [raised |-> d.raised, g |-> g]
             ELSE [raised |-> "None",
                   g |-> [g EXCEPT !.deck = d.cards,
                                   !.players[g.current_player] = hit(@, d.ret)]]

\* hit_current_player drawing the card before it checks that the game has
\* not ended.
hit_current_player_draws_first(g) ==
    LET d == draw_card(g.deck)
    IN  IF d.raised # "None" THEN [raised |-> d.raised, g |-> g]
        ELSE IF g.current_player = None
        THEN [raised |-> "AssertionError", g |-> [g EXCEPT !.deck = d.cards]]
        ELSE LET g1 == [g EXCEPT !.deck = d.cards,
                                 !.players[g.current_player] = hit(@, d.ret)]
             IN  IF is_bust(g1.players[g1.current_player])
                 THEN _next_player(g1)
                 ELSE [raised |-> "None", g |-> g1]

\* BlackJack.hit_current_player
hit_current_player(g) ==
    IF g.current_player = None THEN [raised |-> "AssertionError", g |-> g]
    ELSE LET d == draw_card(g.deck)
         IN  IF d.raised # "None" THEN [raised |-> d.raised, g |-> g]
             ELSE LET g1 == [g EXCEPT !.deck = d.cards,
                                      !.players[g.current_player] = hit(@, d.ret)]
                  IN  IF is_bust(g1.players[g1.current_player])
                      THEN _next_player(g1)
                      ELSE [raised |-> "None", g |-> g1]

\* stand_current_player doing what hit_current_player does.
stand_current_player_hits(g) ==
    IF g.current_player = None THEN [raised |-> "AssertionError", g |-> g]
    ELSE LET d == draw_card(g.deck)
         IN  IF d.raised # "None" THEN [raised |-> d.raised, g |-> g]
             ELSE LET g1 == [g EXCEPT !.deck = d.cards,
                                      !.players[g.current_player] = hit(@, d.ret)]
                  IN  IF is_bust(g1.players[g1.current_player])
                      THEN _next_player(g1)
                      ELSE [raised |-> "None", g |-> g1]

\* BlackJack.stand_current_player
stand_current_player(g) ==
    IF g.current_player = None THEN [raised |-> "AssertionError", g |-> g]
    ELSE _next_player(g)

\* BlackJack.get_current_player_name
get_current_player_name(g) ==
    IF g.current_player = None THEN [raised |-> "AssertionError", ret |-> ""]
    ELSE [raised |-> "None", ret |-> g.players[g.current_player].name]

\* BlackJack.game_finished
game_finished(g) == g.current_player = None

\* BlackJack.get_game_state: the dictionary of the game's state.
get_game_state(g) ==
    [finished |-> game_finished(g),
     current_player |-> IF game_finished(g) THEN None
                        ELSE g.players[g.current_player].name,
     players |-> [n \in {g.players[i].name : i \in 1..Len(g.players)} |->
                     LET p == g.players[CHOOSE i \in 1..Len(g.players) :
                                           /\ g.players[i].name = n
                                           /\ \A j \in 1..Len(g.players) :
                                                  g.players[j].name = n => j <= i]
                     IN  [hand |-> p.hand, bust |-> is_bust(p)]],
     dealer |-> [hand |-> g.dealer.hand, bust |-> is_bust(g.dealer)]]

\* The body of the loop of get_game_result: the result of one player.
PlayerResult(player, dealer) ==
    IF is_bust(player) THEN [raised |-> "None", ret |-> "BUST"]
    ELSE IF is_bust(dealer) THEN [raised |-> "None", ret |-> "WON"]
    ELSE LET player_hand_sum == sum_cards(player.hand)
             dealer_hand_sum == sum_cards(dealer.hand)
             pb == is_hand_blackjack(player.hand)
             db == is_hand_blackjack(dealer.hand)
         IN  IF player_hand_sum > dealer_hand_sum
             THEN [raised |-> "None", ret |-> "WON"]
             ELSE IF dealer_hand_sum > player_hand_sum
             THEN [raised |-> "None", ret |-> "LOST"]
             ELSE IF pb.raised # "None" THEN [raised |-> pb.raised, ret |-> ""]
             ELSE IF pb.ret /\ db.raised # "None"
             THEN [raised |-> db.raised, ret |-> ""]
             ELSE IF pb.ret /\ db.ret THEN [raised |-> "None", ret |-> "PUSH"]
             ELSE IF pb.ret THEN [raised |-> "None", ret |-> "WON"]
             ELSE IF db.raised # "None" THEN [raised |-> db.raised, ret |-> ""]
             ELSE IF db.ret THEN [raised |-> "None", ret |-> "LOST"]
             ELSE [raised |-> "None", ret |-> "PUSH"]

\* get_game_result without its assertion that the game is finished.
get_game_result_unguarded(g) ==
    LET res == [i \in 1..Len(g.players) |-> PlayerResult(g.players[i], g.dealer)]
        bad == {i \in 1..Len(g.players) : res[i].raised # "None"}
        names == {g.players[i].name : i \in 1..Len(g.players)}
        last(n) == CHOOSE i \in 1..Len(g.players) :
                       /\ g.players[i].name = n
                       /\ \A j \in 1..Len(g.players) :
                              g.players[j].name = n => j <= i
    IN  IF bad # {}
        THEN [raised |-> res[CHOOSE i \in bad : \A j \in bad : i <= j].raised]
        ELSE [raised |-> "None", ret |-> [n \in names |-> res[last(n)].ret]]

\* BlackJack.get_game_result: the dictionary from each player's name to the
\* player's result; the first result that raises ends the call.
get_game_result(g) ==
    IF g.current_player # None THEN [raised |-> "AssertionError"]
    ELSE LET res == [i \in 1..Len(g.players) |-> PlayerResult(g.players[i], g.dealer)]
             bad == {i \in 1..Len(g.players) : res[i].raised # "None"}
             names == {g.players[i].name : i \in 1..Len(g.players)}
             last(n) == CHOOSE i \in 1..Len(g.players) :
                            /\ g.players[i].name = n
                            /\ \A j \in 1..Len(g.players) :
                                   g.players[j].name = n => j <= i
         IN  IF bad # {}
             THEN [raised |-> res[CHOOSE i \in bad : \A j \in bad : i <= j].raised]
             ELSE [raised |-> "None", ret |-> [n \in names |-> res[last(n)].ret]]

\* The loop of BlackJack.__init__ from participant k on: the players in
\* order and then the dealer get two cards each, the first drawn first.
RECURSIVE DealFrom(_, _)
DealFrom(g, k) ==
    IF k > Len(g.players) + 1 THEN [raised |-> "None", g |-> g]
    ELSE LET d1 == draw_card(g.deck)
             d2 == draw_card(d1.cards)
             who == IF k <= Len(g.players) THEN g.players[k] ELSE g.dealer
         IN  IF d1.raised # "None" THEN [raised |-> d1.raised, g |-> g]
             ELSE IF d2.raised # "None"
             THEN [raised |-> d2.raised, g |-> [g EXCEPT !.deck = d1.cards]]
             ELSE LET r == deal_initial_cards(who, d1.ret, d2.ret)
                      g1 == IF k <= Len(g.players)
                            THEN [g EXCEPT !.deck = d2.cards, !.players[k] = r.player]
                            ELSE [g EXCEPT !.deck = d2.cards, !.dealer = r.player]
                  IN  IF r.raised # "None" THEN [raised |-> r.raised, g |-> g1]
                      ELSE DealFrom(g1, k + 1)

\* What the attributes hold before a game object is made of deck cards.
NoGame(cards) ==
    [players |-> <<>>, dealer |-> Player("Dealer"), deck |-> cards,
     current_player |-> None]

\* __init__ with the assertion on the names after the deal.
__init__deals_first(names, cards) ==
    LET r == DealFrom([players |-> [i \in 1..Len(names) |-> Player(names[i])],
                       dealer |-> Player("Dealer"),
                       deck |-> cards,
                       current_player |-> 1], 1)
    IN  IF r.raised # "None" THEN r
        ELSE IF names = <<>> THEN [raised |-> "AssertionError", g |-> r.g]
        ELSE r

\* BlackJack.__init__(player_names, deck)
__init__(names, cards) ==
    IF names = <<>> THEN [raised |-> "AssertionError", g |-> NoGame(cards)]
    ELSE DealFrom([players |-> [i \in 1..Len(names) |-> Player(names[i])],
                   dealer |-> Player("Dealer"),
                   deck |-> cards,
                   current_player |-> 1], 1)

\* ------------------------------------------------------------------- state
VARIABLES
    player_names,     \* the names a game is made with
    card_codes,       \* the draw order the MockDeck is made with
    phase,            \* "new": no game yet; "game": a game object exists;
                      \* "failed": BlackJack(...) raised; "hand": no game
    _players,         \* BlackJack._players
    _dealer,          \* BlackJack._dealer
    _deck,            \* BlackJack._deck.cards
    _current_player,  \* BlackJack._current_player, as an index or None
    call,             \* the last call, the exception it raised, what it returned
    hand,             \* the hand the scoring functions are applied to
    total             \* sum_cards(hand)

game_vars == <<_players, _dealer, _deck, _current_player>>
vars == <<player_names, card_codes, phase, _players, _dealer, _deck,
          _current_player, call, hand, total>>

\* The game object of the current state.
self == [players |-> _players, dealer |-> _dealer, deck |-> _deck,
         current_player |-> _current_player]

\* The game object becomes g.
Becomes(g) ==
    /\ _players' = g.players
    /\ _dealer' = g.dealer
    /\ _deck' = g.deck
    /\ _current_player' = g.current_player

\* The sequences over S of length lo to hi.
SeqsOf(S, lo, hi) == UNION {[1..n -> S] : n \in lo..hi}

NoCall == [op |-> "None", raised |-> "None"]

Init ==
    /\ player_names \in {[i \in 1..n |-> PlayerName(i)] : n \in 0..MaxPlayers}
    /\ card_codes \in SeqsOf(GameCodes, 0, MaxDeck)
    /\ phase = "new"
    /\ _players = NoGame(MockDeck(card_codes)).players
    /\ _dealer = NoGame(MockDeck(card_codes)).dealer
    /\ _deck = NoGame(MockDeck(card_codes)).deck
    /\ _current_player = NoGame(MockDeck(card_codes)).current_player
    /\ call = NoCall
    /\ hand = <<>>
    /\ total = 0

\* ----------------------------------------------------------------- actions
\* BlackJack(player_names, deck=MockDeck(card_codes))
NewGame ==
    /\ phase = "new"
    /\ LET r == __init__(player_names, _deck)
       IN  /\ Becomes(r.g)
           /\ phase' = IF r.raised = "None" THEN "game" ELSE "failed"
           /\ call' = [op |-> "__init__", raised |-> r.raised]
    /\ UNCHANGED <<player_names, card_codes, hand, total>>

\* bj.hit_current_player()
Hit ==
    /\ phase = "game"
    /\ LET r == hit_current_player(self)
       IN  /\ Becomes(r.g)
           /\ call' = [op |-> "hit_current_player", raised |-> r.raised]
    /\ UNCHANGED <<player_names, card_codes, phase, hand, total>>

\* bj.stand_current_player()
Stand ==
    /\ phase = "game"
    /\ LET r == stand_current_player(self)
       IN  /\ Becomes(r.g)
           /\ call' = [op |-> "stand_current_player", raised |-> r.raised]
    /\ UNCHANGED <<player_names, card_codes, phase, hand, total>>

\* bj.get_current_player_name()
CurrentPlayerName ==
    /\ phase = "game"
    /\ LET r == get_current_player_name(self)
       IN  call' = [op |-> "get_current_player_name", raised |-> r.raised,
                    ret |-> r.ret]
    /\ UNCHANGED <<player_names, card_codes, phase, game_vars, hand, total>>

\* bj.game_finished()
GameFinished ==
    /\ phase = "game"
    /\ call' = [op |-> "game_finished", raised |-> "None",
                ret |-> game_finished(self)]
    /\ UNCHANGED <<player_names, card_codes, phase, game_vars, hand, total>>

\* bj.get_game_result()
GameResult ==
    /\ phase = "game"
    /\ LET r == get_game_result(self)
       IN  call' = [r EXCEPT !.raised = r.raised] @@ [op |-> "get_game_result"]
    /\ UNCHANGED <<player_names, card_codes, phase, game_vars, hand, total>>

\* bj.get_game_state()
GameState ==
    /\ phase = "game"
    /\ call' = [op |-> "get_game_state", raised |-> "None",
                ret |-> get_game_state(self)]
    /\ UNCHANGED <<player_names, card_codes, phase, game_vars, hand, total>>

\* who.deal_initial_cards(make_card(code1), make_card(code2)), for a
\* participant of the game: player who, or the dealer for who = N + 1.
DealInitialCards(who, code1, code2) ==
    /\ phase = "game"
    /\ LET player == IF who <= Len(_players) THEN _players[who] ELSE _dealer
           r == deal_initial_cards(player, make_card(code1), make_card(code2))
       IN  /\ _players' = IF who <= Len(_players)
                          THEN [_players EXCEPT ![who] = r.player]
                          ELSE _players
           /\ _dealer' = IF who <= Len(_players) THEN _dealer ELSE r.player
           /\ call' = [op |-> "deal_initial_cards", raised |-> r.raised]
    /\ UNCHANGED <<player_names, card_codes, phase, _deck, _current_player,
                   hand, total>>

\* A second deal to a participant of the game.  The cards are an Ace and a
\* King: deal_initial_cards decides on the participant's hand alone.
DealAgain ==
    \E who \in 1..(Len(_players) + 1) : DealInitialCards(who, "a", "k")

Next ==
    \/ NewGame
    \/ Hit
    \/ Stand
    \/ CurrentPlayerName
    \/ GameFinished
    \/ GameResult

Spec == Init /\ [][Next]_vars

\* The game with get_game_state among its queries.
NextQueries ==
    \/ NewGame
    \/ Hit
    \/ Stand
    \/ CurrentPlayerName
    \/ GameFinished
    \/ GameResult
    \/ GameState

SpecQueries == Init /\ [][NextQueries]_vars

\* The calls that change a hand, with a second deal to a participant.
NextDeals ==
    \/ NewGame
    \/ Hit
    \/ Stand
    \/ DealAgain

SpecDeals == Init /\ [][NextDeals]_vars

\* ------------------------------------------------------ scoring one hand
\* The scoring functions applied to every hand of at most MaxHand cards, built
\* one card at a time.
InitHand ==
    /\ player_names = <<>>
    /\ card_codes = <<>>
    /\ phase = "hand"
    /\ _players = NoGame(<<>>).players
    /\ _dealer = NoGame(<<>>).dealer
    /\ _deck = NoGame(<<>>).deck
    /\ _current_player = NoGame(<<>>).current_player
    /\ call = NoCall
    /\ hand = <<>>
    /\ total = 0

\* hand.append(make_card(code)); sum_cards(hand); is_hand_blackjack(hand)
ScoreHand(code) ==
    /\ phase = "hand"
    /\ Len(hand) < MaxHand
    /\ hand' = Append(hand, make_card(code))
    /\ total' = sum_cards(hand')
    /\ call' = is_hand_blackjack(hand') @@ [op |-> "is_hand_blackjack"]
    /\ UNCHANGED <<player_names, card_codes, phase, game_vars>>

NextHand == \E code \in Codes : ScoreHand(code)

SpecHand == InitHand /\ [][NextHand]_vars

\* ------------------------------------------------------------ game states
\* The number of players of the game.
N == Len(_players)

\* Active(i): a game whose current player is player i.
Active == phase = "game" /\ _current_player # None

\* Ended: a game without a current player.
Ended == phase = "game" /\ _current_player = None

\* The step is a call of op on the game object.
Calls(op) == phase = "game" /\ call'.op = op

Returned == call'.raised = "None"

\* The card codes drawn so far, made cards: the cards from the k-th drawn on.
DrawnFrom(k) == make_cards(SubSeq(card_codes, k, Len(card_codes)))

\* s is t with cards appended.
Extends(s, t) == Len(t) <= Len(s) /\ SubSeq(s, 1, Len(t)) = t

Front(s) == SubSeq(s, 1, Len(s) - 1)

\* The dealer's turn has been played on dealer hand before, leaving after:
\* the dealer drew the top cards of deck before, one at a time, and stands.
DealerPlayed(before, after, deckBefore, deckAfter) ==
    /\ Extends(after, before)
    /\ Extends(deckBefore, deckAfter)
    /\ Len(after) - Len(before) = Len(deckBefore) - Len(deckAfter)
    /\ \A k \in 1..(Len(after) - Len(before)) :
           after[Len(before) + k] = deckBefore[Len(deckBefore) + 1 - k]
    /\ sum_cards(after) >= DealerLimit
    /\ \A k \in Len(before)..(Len(after) - 1) :
           sum_cards(SubSeq(after, 1, k)) < DealerLimit

\* ------------------------------------------------------------------ claims

\* C1: turn order.  The first current player is player 1; the current player
\* changes only when a hit that busts or a stand returns, and then from
\* player i to player i + 1, or from the last player to Ended; every stand
\* and every busting hit that returns moves it; a hit or stand of an Active
\* game fails to return only when the card source has run out.
TurnOrder ==
    [][/\ (phase = "new" /\ phase' = "game") => _current_player' = 1
       /\ phase = "game" =>
            /\ Len(_players') = N
            /\ (_current_player' # _current_player) =>
                  /\ _current_player # None
                  /\ _current_player' =
                         (IF _current_player = N THEN None ELSE _current_player + 1)
                  /\ call'.op \in {"hit_current_player", "stand_current_player"}
                  /\ call'.raised = "None"
                  /\ (call'.op = "hit_current_player") =>
                         sum_cards(_players'[_current_player].hand) > BustLimit
            /\ (Active /\ Returned /\ call'.op = "stand_current_player") =>
                  _current_player' # _current_player
            /\ (Active /\ Returned /\ call'.op = "hit_current_player"
                  /\ sum_cards(_players'[_current_player].hand) > BustLimit) =>
                  _current_player' # _current_player
            /\ (Active /\ ~Returned
                  /\ call'.op \in {"hit_current_player", "stand_current_player"}) =>
                  (call'.raised = "IndexError" /\ _deck' = <<>>)
      ]_vars

\* A two-player game that ended by the stand of player 2 after player 1 went
\* bust.
TurnOrderWitness ==
    /\ Ended
    /\ N = 2
    /\ is_bust(_players[1])
    /\ ~is_bust(_players[2])
    /\ call.op = "stand_current_player"
    /\ call.raised = "None"

\* C2: the initial deal.  BlackJack(player_names, deck) returns exactly when
\* there is a player and the deck holds two cards for each player and the
\* dealer; then player i holds the cards drawn (2i-1)-th and (2i)-th, in
\* that order, the dealer the two drawn next, the deck the other cards, and
\* player 1 is the current player.
InitialDeal ==
    call.op = "__init__" =>
        /\ (call.raised = "None") <=>
               (/\ Len(player_names) >= 1
                /\ Len(card_codes) >= 2 * Len(player_names) + 2)
        /\ (call.raised = "None") =>
               /\ phase = "game"
               /\ N = Len(player_names)
               /\ \A i \in 1..N :
                      /\ _players[i].name = player_names[i]
                      /\ _players[i].hand =
                             <<make_card(card_codes[2 * i - 1]),
                               make_card(card_codes[2 * i])>>
               /\ _dealer.hand = <<make_card(card_codes[2 * N + 1]),
                                   make_card(card_codes[2 * N + 2])>>
               /\ Len(_deck) = Len(card_codes) - (2 * N + 2)
               /\ reversed(_deck) = DrawnFrom(2 * N + 3)
               /\ _current_player = 1

\* A two-player game just made of a deck of seven cards.
InitialDealWitness ==
    /\ call.op = "__init__"
    /\ call.raised = "None"
    /\ N = 2
    /\ Len(_deck) = 1
    /\ _players[1].hand[1] # _players[1].hand[2]

\* C3: a hit of an Active game that returns has drawn the next card of the
\* source and appended it to the current player's hand, changing no other
\* player's hand; when that hand is bust the next player is current, or,
\* after the last player, the dealer's turn has been played and the game is
\* Ended; when it is not bust nothing else has changed.  A hit of an Active
\* game fails to return only when the card source has run out.
HitEffect ==
    [][(Active /\ call'.op = "hit_current_player") =>
          IF Returned
          THEN LET i == _current_player
               IN  /\ _deck # <<>>
                   /\ Len(_players') = N
                   /\ _players'[i].hand = Append(_players[i].hand, _deck[Len(_deck)])
                   /\ \A j \in 1..N : j # i => _players'[j] = _players[j]
                   /\ IF sum_cards(_players'[i].hand) > BustLimit
                      THEN IF i < N
                           THEN /\ _current_player' = i + 1
                                /\ _dealer' = _dealer
                                /\ _deck' = Front(_deck)
                           ELSE /\ _current_player' = None
                                /\ DealerPlayed(_dealer.hand, _dealer'.hand,
                                                Front(_deck), _deck')
                      ELSE /\ _current_player' = i
                           /\ _dealer' = _dealer
                           /\ _deck' = Front(_deck)
          ELSE call'.raised = "IndexError" /\ _deck' = <<>>
      ]_vars

\* Player 1 of two has just gone bust by a hit, and player 2 is current.
HitEffectWitness ==
    /\ Active
    /\ call.op = "hit_current_player"
    /\ call.raised = "None"
    /\ _current_player = 2
    /\ is_bust(_players[1])
    /\ Len(_players[2].hand) = 2

\* C4: no stand changes a player's hand.  A stand of an Active game that
\* returns has, for a player who is not the last, only made the next player
\* current; for the last player the dealer's turn has been played and the
\* game is Ended.  A stand of an Active game fails to return only for the last
\* player, when the card source has run out during the dealer's turn.
StandEffect ==
    [][Calls("stand_current_player") =>
          /\ _players' = _players
          /\ (Active /\ Returned) =>
                IF _current_player < N
                THEN /\ _current_player' = _current_player + 1
                     /\ _dealer' = _dealer
                     /\ _deck' = _deck
                ELSE /\ _current_player' = None
                     /\ DealerPlayed(_dealer.hand, _dealer'.hand, _deck, _deck')
          /\ (Active /\ ~Returned) =>
                /\ _current_player = N
                /\ call'.raised = "IndexError"
                /\ _deck' = <<>>
                /\ sum_cards(_dealer'.hand) < DealerLimit
      ]_vars

\* The last player has just stood and the dealer has drawn.
StandEffectWitness ==
    /\ Ended
    /\ call.op = "stand_current_player"
    /\ call.raised = "None"
    /\ Len(_dealer.hand) > 2

\* C5: Ended is absorbing.  No step of an Ended game changes the players, the
\* dealer, the deck or the current player, and every hit_current_player,
\* stand_current_player and get_current_player_name of an Ended game raises.
EndedAbsorbing ==
    [][Ended =>
          /\ phase' = phase
          /\ game_vars' = game_vars
          /\ (call'.op \in {"hit_current_player", "stand_current_player",
                            "get_current_player_name"}) =>
                 call'.raised # "None"
      ]_vars

\* A hit of an Ended game, with cards left in the deck, has just raised.
EndedAbsorbingWitness ==
    /\ Ended
    /\ call.op = "hit_current_player"
    /\ call.raised = "AssertionError"
    /\ _deck # <<>>

\* The total of the players' hand i and of the dealer's hand.
PlayerTotal(i) == sum_cards(_players[i].hand)
DealerTotal == sum_cards(_dealer.hand)

\* C6: result precedence.  In every Ended state get_game_result returns, for
\* each player, BUST when the player's total exceeds 21, otherwise WON when
\* the dealer's total exceeds 21, otherwise WON when the player's total is
\* higher than the dealer's and LOST when it is lower.
ResultPrecedence ==
    Ended =>
        \A i \in 1..N :
            (PlayerTotal(i) > BustLimit \/ DealerTotal > BustLimit
                \/ PlayerTotal(i) # DealerTotal) =>
                /\ get_game_result(self).raised = "None"
                /\ get_game_result(self).ret[_players[i].name] =
                       (IF PlayerTotal(i) > BustLimit THEN "BUST"
                        ELSE IF DealerTotal > BustLimit THEN "WON"
                        ELSE IF PlayerTotal(i) > DealerTotal THEN "WON"
                        ELSE "LOST")

\* A natural blackjack: two cards, an Ace and a ten-value card.
Natural(h) ==
    /\ Len(h) = 2
    /\ \E i \in 1..2 : h[i].type = ACE
    /\ \E i \in 1..2 : h[i].type \in {TEN, KING, QUEEN, JACK}

\* C7: the tie-break.  In every Ended state, for each player who is not bust
\* and whose total equals the total of the dealer, who is not bust,
\* get_game_result returns PUSH when both hands are natural, WON when only
\* the player's is, LOST when only the dealer's is, and PUSH when neither is.
TieBreak ==
    Ended =>
        \A i \in 1..N :
            (PlayerTotal(i) <= BustLimit /\ PlayerTotal(i) = DealerTotal) =>
                /\ get_game_result(self).raised = "None"
                /\ get_game_result(self).ret[_players[i].name] =
                       (IF Natural(_players[i].hand) /\ Natural(_dealer.hand)
                        THEN "PUSH"
                        ELSE IF Natural(_players[i].hand) THEN "WON"
                        ELSE IF Natural(_dealer.hand) THEN "LOST"
                        ELSE "PUSH")

\* The sum of the cards of h with every Ace counted as 1.
RECURSIVE HardTotal(_)
HardTotal(h) == IF h = <<>> THEN 0 ELSE h[1].value + HardTotal(Tail(h))

\* The number of Aces of h.
AceCount(h) == Cardinality({i \in 1..Len(h) : h[i].type = ACE})

\* The best total of h: the largest sum of at most 21 with each Ace counted
\* as 1 or as 11, and the sum with every Ace counted as 1 when there is none.
BestTotal(h) ==
    LET sums == {HardTotal(h) + 10 * k : k \in 0..AceCount(h)}
        good == {t \in sums : t <= BustLimit}
    IN  IF good = {} THEN HardTotal(h)
        ELSE CHOOSE t \in good : \A u \in good : u <= t

\* C8: sum_cards(hand) is the best total of the hand, for every hand; so a
\* hand is bust only when its sum with every Ace counted as 1 exceeds 21.
SumIsBestTotal ==
    phase = "hand" =>
        /\ total = BestTotal(hand)
        /\ (total > BustLimit) => (HardTotal(hand) > BustLimit)

\* C9: the dealer's turn.  The dealer's hand changes only in the call that
\* ends the last player's turn, by cards appended.  In every Active state the
\* dealer holds two cards, unless the card source has run out during the
\* dealer's turn.  In every Ended state the dealer's total is at least 17
\* and, when the dealer has drawn, the total before the last card was below
\* 17.  The dealer's hand does not change once the game is Ended.
DealerTurn ==
    [][/\ Active' =>
             (Len(_dealer'.hand) = 2
                 \/ (_deck' = <<>> /\ sum_cards(_dealer'.hand) < DealerLimit))
       /\ Ended' =>
             /\ Len(_dealer'.hand) >= 2
             /\ sum_cards(_dealer'.hand) >= DealerLimit
             /\ (Len(_dealer'.hand) > 2) =>
                    sum_cards(Front(_dealer'.hand)) < DealerLimit
       /\ (phase = "game" /\ _dealer' # _dealer) =>
             /\ _current_player = N
             /\ call'.op \in {"hit_current_player", "stand_current_player"}
             /\ (call'.op = "hit_current_player") =>
                    sum_cards(_players'[N].hand) > BustLimit
             /\ Extends(_dealer'.hand, _dealer.hand)
             /\ \A k \in (Len(_dealer.hand) + 1)..Len(_dealer'.hand) :
                    sum_cards(SubSeq(_dealer'.hand, 1, k - 1)) < DealerLimit
      ]_vars

\* The game is Ended and the dealer, having drawn two cards, is bust.
DealerTurnWitness ==
    /\ Ended
    /\ Len(_dealer.hand) = 4
    /\ sum_cards(_dealer.hand) > BustLimit

\* C10: no partial mutation.  A hit_current_player or stand_current_player
\* that raises leaves the players, the dealer, the deck and the current
\* player as they were.
NoPartialMutation ==
    [][(phase = "game"
          /\ call'.op \in {"hit_current_player", "stand_current_player"}
          /\ call'.raised # "None") =>
          game_vars' = game_vars
      ]_vars

\* C11: is_hand_blackjack(hand) returns true exactly for the hands of two
\* cards that are an Ace and a ten-value card, and false for every other
\* hand.
NaturalBlackjack ==
    (phase = "hand" /\ call.op = "is_hand_blackjack") =>
        /\ call.raised = "None"
        /\ call.ret = Natural(hand)

\* The fixed value of a card of type t: 2 to 9 at face value, Ten, King, Queen
\* and Jack at 10 (and an Ace at 1).
FixedValue(t) ==
    CASE t.name = "ACE" -> 1
      [] t.name = "TWO" -> 2
      [] t.name = "THREE" -> 3
      [] t.name = "FOUR" -> 4
      [] t.name = "FIVE" -> 5
      [] t.name = "SIX" -> 6
      [] t.name = "SEVEN" -> 7
      [] t.name = "EIGHT" -> 8
      [] t.name = "NINE" -> 9
      [] t.name \in {"TEN", "KING", "QUEEN", "JACK"} -> 10

\* The sum of the fixed values of the cards of h that are not Aces.
RECURSIVE NonAceSum(_)
NonAceSum(h) ==
    IF h = <<>> THEN 0
    ELSE (IF h[1].type = ACE THEN 0 ELSE FixedValue(h[1].type)) + NonAceSum(Tail(h))

\* The last card of the hand is not an Ace.
NonAceHit == hand # <<>> /\ hand[Len(hand)].type # ACE

\* The last card of the hand makes an Ace counted as 11 count as 1: the hand
\* before it holds an Ace and cards that are not Aces of a sum of at most 10,
\* and of more than 10 with the last card.
Demotes ==
    /\ AceCount(Front(hand)) >= 1
    /\ NonAceSum(Front(hand)) <= 10
    /\ NonAceSum(hand) > 10

\* C12 as claimed: the total of a hand is not below the total of the hand
\* without its last card, when that card is not an Ace.
TotalMonotone ==
    (phase = "hand" /\ NonAceHit) => sum_cards(Front(hand)) <= total

\* C12 as amended: a card that is not an Ace adds its value to the total,
\* so that the total does not decrease, unless it makes an Ace counted as 11
\* count as 1; then it adds its value less 10.
TotalMonotoneUnlessDemoted ==
    (phase = "hand" /\ NonAceHit) =>
        LET v == FixedValue(hand[Len(hand)].type)
        IN  IF Demotes
            THEN total = sum_cards(Front(hand)) + v - 10
            ELSE /\ total = sum_cards(Front(hand)) + v
                 /\ sum_cards(Front(hand)) <= total

\* A card that is not an Ace has lowered the total.
TotalMonotoneWitness ==
    /\ phase = "hand"
    /\ NonAceHit
    /\ Demotes
    /\ total < sum_cards(Front(hand))

\* The sum of the fixed values of the cards of h.
RECURSIVE FixedSum(_)
FixedSum(h) ==
    IF h = <<>> THEN 0 ELSE FixedValue(h[1].type) + FixedSum(Tail(h))

\* C15: the total of a hand without an Ace is the sum of the fixed values of
\* its cards, in whatever order the hand holds them.
NoAceTotal ==
    (phase = "hand" /\ AceCount(hand) = 0) =>
        /\ total = FixedSum(hand)
        /\ total = sum_cards(reversed(hand))

\* A hand of four cards without an Ace, with a face card before and after a
\* smaller card.
NoAceTotalWitness ==
    /\ phase = "hand"
    /\ Len(hand) = 4
    /\ AceCount(hand) = 0
    /\ hand[1].type = KING
    /\ hand[2].type = Member("TWO")
    /\ hand[3].type = JACK
    /\ total = 31

\* C13 as claimed: the game always reaches Ended if hit or stand is called
\* enough times.  An Active game that neither call changes stays Active
\* whatever is called, so every Active game has a call that changes it.
GameTerminates ==
    Active => \/ hit_current_player(self).g # self
              \/ stand_current_player(self).g # self

\* What is left to do in an Active game: the cards of the source and the
\* players who have not finished their turn.
Rank == Len(_deck) + (N - _current_player + 1)

\* C13 as amended: every hit and every stand of an Active game that returns
\* ends the game or leaves it Active with less left to do, so that the game
\* is Ended after at most Rank calls that return; and the dealer's turn
\* draws no more cards than the source holds.
GameTerminatesWhileCallsReturn ==
    [][(Active /\ call'.op \in {"hit_current_player", "stand_current_player"}) =>
          /\ Rank >= 1
          /\ Len(_dealer'.hand) - Len(_dealer.hand) <= Len(_deck)
          /\ Returned => (Ended' \/ (Active' /\ Rank' < Rank /\ Rank' >= 1))
      ]_vars

\* The bust of the last player on the last card of the source has ended a
\* two-player game.
GameTerminatesWitness ==
    /\ Ended
    /\ N = 2
    /\ call.op = "hit_current_player"
    /\ call.raised = "None"
    /\ _deck = <<>>

\* The calls that read the game.
Queries ==
    {"get_current_player_name", "game_finished", "get_game_state",
     "get_game_result"}

\* C14: game_finished() is true exactly in Ended, a state entered only by a
\* returning hit or stand of the last player, with the dealer's turn played;
\* get_game_result() fails on the state exactly in Active; and no query
\* changes a hand, the deck or the current player.
QueriesReadOnly ==
    [][/\ (phase = "game" /\ call'.op \in Queries) =>
              UNCHANGED <<game_vars, phase, player_names, card_codes>>
       /\ Calls("game_finished") => Returned /\ call'.ret = Ended
       /\ Calls("get_game_state") => Returned /\ call'.ret.finished = Ended
       /\ Calls("get_game_result") =>
              /\ (call'.raised = "AssertionError") <=> Active
              /\ Active' <=> Active
       /\ (Active /\ Ended') =>
              /\ _current_player = N
              /\ call'.op \in {"hit_current_player", "stand_current_player"}
              /\ Returned
              /\ sum_cards(_dealer'.hand) >= DealerLimit
      ]_vars

\* get_game_result() has failed in an Active game whose first player has
\* hit once.
QueriesReadOnlyWitness ==
    /\ Active
    /\ call.op = "get_game_result"
    /\ call.raised = "AssertionError"
    /\ Len(_players[1].hand) = 3

\* C16: BlackJack([], deck) raises before anything is done: no game is
\* made, no participant holds a card and the deck holds every card it was
\* given.
EmptyNamesRejected ==
    (call.op = "__init__" /\ player_names = <<>>) =>
        /\ call.raised = "AssertionError"
        /\ phase = "failed"
        /\ _players = <<>>
        /\ _dealer.hand = <<>>
        /\ _current_player = None
        /\ _deck = MockDeck(card_codes)

\* BlackJack([], deck) has been called with a deck that could have dealt
\* the dealer's two cards.
EmptyNamesRejectedWitness ==
    /\ call.op = "__init__"
    /\ player_names = <<>>
    /\ Len(card_codes) >= 2
    /\ Len(_deck) = Len(card_codes)

\* C17: in a game every participant holds at least 2 cards; a step keeps
\* the cards of every hand in place and in order; a hit that returns adds
\* exactly one card, the top of the deck, to the current player's hand and
\* none to another player's; and deal_initial_cards on a participant who
\* holds cards raises and leaves the hand as it was.
HandsAppendOnly ==
    [][/\ phase' = "game" =>
              /\ \A i \in 1..Len(_players') : Len(_players'[i].hand) >= 2
              /\ Len(_dealer'.hand) >= 2
       /\ Extends(_dealer'.hand, _dealer.hand)
       /\ phase = "game" =>
              /\ Len(_players') = Len(_players)
              /\ \A i \in 1..Len(_players) :
                     Extends(_players'[i].hand, _players[i].hand)
       /\ (Calls("hit_current_player") /\ Returned) =>
              /\ Active
              /\ Len(_deck) >= 1
              /\ _players'[_current_player].hand =
                     Append(_players[_current_player].hand, _deck[Len(_deck)])
              /\ \A i \in 1..Len(_players) :
                     i # _current_player => _players'[i].hand = _players[i].hand
       /\ Calls("deal_initial_cards") =>
              /\ call'.raised = "Exception"
              /\ UNCHANGED game_vars
      ]_vars

\* A second deal has been refused to a participant of a game whose first
\* player has hit once.
HandsAppendOnlyWitness ==
    /\ phase = "game"
    /\ call.op = "deal_initial_cards"
    /\ call.raised = "Exception"
    /\ Len(_players[1].hand) = 3

\* The results of get_game_result.
Results == {"BUST", "WON", "LOST", "PUSH"}

\* C18: in every Ended state get_game_result returns, without raising, a
\* dictionary that gives every player of the game exactly one of BUST, WON,
\* LOST and PUSH.
ResultsTotal ==
    Ended =>
        /\ get_game_result(self).raised = "None"
        /\ DOMAIN get_game_result(self).ret = {_players[i].name : i \in 1..N}
        /\ \A n \in DOMAIN get_game_result(self).ret :
               get_game_result(self).ret[n] \in Results

\* The two cards dealt to player i by BlackJack.__init__.
InitialHand(i) == make_cards(SubSeq(card_codes, 2 * i - 1, 2 * i))

\* C19: in every Active state the current player is not bust and every
\* later player holds exactly the two cards dealt to the player; the hand of
\* a player before the current one, and every player's hand in Ended, does
\* not change in any step; and a bust player's hand without its last card
\* is not bust.
TurnDiscipline ==
    [][/\ Active' =>
              /\ ~is_bust(_players'[_current_player'])
              /\ \A j \in (_current_player' + 1)..Len(_players') :
                     _players'[j].hand = InitialHand(j)
       /\ phase' = "game" =>
              \A i \in 1..Len(_players') :
                  is_bust(_players'[i]) =>
                      sum_cards(Front(_players'[i].hand)) <= BustLimit
       /\ phase = "game" =>
              \A i \in 1..N :
                  (Ended \/ i < _current_player) =>
                      _players'[i].hand = _players[i].hand
      ]_vars

\* The cards dealt to players 1..i by BlackJack.__init__, in the order of
\* the deal, and the cards players 1..i have drawn by hits, in turn order.
RECURSIVE DealtCards(_)
DealtCards(i) ==
    IF i = 0 THEN <<>>
    ELSE DealtCards(i - 1) \o SubSeq(_players[i].hand, 1, 2)

RECURSIVE HitCards(_)
HitCards(i) ==
    IF i = 0 THEN <<>>
    ELSE HitCards(i - 1) \o SubSeq(_players[i].hand, 3, Len(_players[i].hand))

\* The cards of all hands in the order they were drawn.
CardsHeld ==
    DealtCards(N) \o SubSeq(_dealer.hand, 1, 2)
        \o HitCards(N) \o SubSeq(_dealer.hand, 3, Len(_dealer.hand))

\* C20: in every state of a game the cards of the hands and of the deck are
\* as many as the deck was given; the cards held, in the order they were
\* drawn, are the first cards of the draw order, each once; and the deck is
\* the rest of the draw order, not refilled and not reshuffled.
CardsConserved ==
    phase = "game" =>
        LET k == Len(card_codes) - Len(_deck)
        IN  /\ Len(CardsHeld) + Len(_deck) = Len(card_codes)
            /\ CardsHeld = make_cards(SubSeq(card_codes, 1, k))
            /\ _deck = MockDeck(SubSeq(card_codes, k + 1, Len(card_codes)))

\* A game has ended with a card hit by the player, a card drawn by the
\* dealer and a card left in the deck.
CardsConservedWitness ==
    /\ Ended
    /\ Len(_players[1].hand) >= 3
    /\ Len(_dealer.hand) >= 3
    /\ _deck # <<>>

====
